---- MODULE Spec2Model ----
(***************************************************************************)
(* Model of scripts/calculate_apr.py: the command-line override loop of    *)
(* the __main__ block followed by the single call of calculate_apr.        *)
(*                                                                         *)
(* Numbers.  A Python float is modelled as an extended rational: a finite  *)
(* value n/d in lowest terms, or one of the IEEE-754 specials inf, -inf,   *)
(* nan.  Finite arithmetic is exact (no binary rounding, no overflow to    *)
(* inf, no signed zero); the specials follow IEEE-754, and a division by   *)
(* zero raises ZeroDivisionError as Python's float division does.          *)
(*                                                                         *)
(* Strings.  A command-line argument is a sequence of atoms; the atom "="  *)
(* is the separator character and every other atom is a maximal run of     *)
(* characters without "=".                                                 *)
(***************************************************************************)
EXTENDS Integers, Sequences, FiniteSets, TLC

VARIABLES argv, i, params, pc, out, exitStatus, exc, locals, calls

vars == <<argv, i, params, pc, out, exitStatus, exc, locals, calls>>

(***************************************************************************)
(* Bounds                                                                  *)
(***************************************************************************)
MaxArgs == 3

(***************************************************************************)
(* Extended rationals                                                      *)
(***************************************************************************)
Abs(x) == IF x < 0 THEN -x ELSE x

Sgn(x) == IF x < 0 THEN -1 ELSE IF x > 0 THEN 1 ELSE 0

RECURSIVE GCD(_, _)
GCD(a, b) == IF b = 0 THEN a ELSE GCD(b, a % b)

Fin(n, d) == LET g == GCD(Abs(n), d) IN [k |-> "fin", n |-> n \div g, d |-> d \div g]

Num(n) == Fin(n, 1)

Inf(s) == [k |-> "inf", n |-> s, d |-> 0]

NaN == [k |-> "nan", n |-> 0, d |-> 0]

ZeroDivisionError == [k |-> "ZeroDivisionError", n |-> 0, d |-> 0]

ValueError == [k |-> "ValueError", n |-> 0, d |-> 0]

IsFinite(x) == x.k = "fin"

IsZero(x) == x.k = "fin" /\ x.n = 0

Raised(x) == x.k = "ZeroDivisionError"

\* float.__mul__ ; an operand that was never bound (an earlier line raised)
\* leaves the result unbound too
Mul(a, b) ==
    IF Raised(a) \/ Raised(b) THEN ZeroDivisionError
    ELSE IF a.k = "nan" \/ b.k = "nan" THEN NaN
    ELSE IF a.k = "inf" \/ b.k = "inf"
         THEN IF IsZero(a) \/ IsZero(b) THEN NaN ELSE Inf(Sgn(a.n) * Sgn(b.n))
    ELSE LET g1 == GCD(Abs(a.n), b.d)
             g2 == GCD(Abs(b.n), a.d)
         IN Fin((a.n \div g1) * (b.n \div g2), (a.d \div g2) * (b.d \div g1))

\* float.__add__
Add(a, b) ==
    IF Raised(a) \/ Raised(b) THEN ZeroDivisionError
    ELSE IF a.k = "nan" \/ b.k = "nan" THEN NaN
    ELSE IF a.k = "inf" /\ b.k = "inf" THEN (IF a.n = b.n THEN a ELSE NaN)
    ELSE IF a.k = "inf" THEN a
    ELSE IF b.k = "inf" THEN b
    ELSE LET g == GCD(a.d, b.d)
         IN Fin(a.n * (b.d \div g) + b.n * (a.d \div g), (a.d \div g) * b.d)

\* the IEEE-754 quotient, which never raises: x/0 is inf or nan
DivIEEE(a, b) ==
    IF Raised(a) \/ Raised(b) THEN ZeroDivisionError
    ELSE IF a.k = "nan" \/ b.k = "nan" THEN NaN
    ELSE IF IsZero(b) THEN (IF IsZero(a) THEN NaN ELSE Inf(Sgn(a.n)))
    ELSE IF a.k = "inf" THEN (IF b.k = "inf" THEN NaN ELSE Inf(a.n * Sgn(b.n)))
    ELSE IF b.k = "inf" THEN Num(0)
    ELSE Mul(a, Fin(Sgn(b.n) * b.d, Abs(b.n)))

\* a variant without the zero-divisor check, as a C double division behaves
Div_Unchecked(a, b) == DivIEEE(a, b)

\* float.__truediv__ : a zero divisor raises ZeroDivisionError whatever the
\* dividend is
Div(a, b) ==
    IF Raised(a) \/ Raised(b) THEN ZeroDivisionError
    ELSE IF IsZero(b) THEN ZeroDivisionError
    ELSE DivIEEE(a, b)

(***************************************************************************)
(* DEFAULT_PARAMS                                                          *)
(***************************************************************************)
DEFAULT_PARAMS ==
    [ total_liquidity          |-> Num(1000000),
      utilization_ratio        |-> Fin(8, 10),
      loan_term_days           |-> Num(30),
      merchant_fee_rate        |-> Fin(15, 1000),
      late_interest_apr        |-> Fin(30, 100),
      liquidation_penalty_rate |-> Fin(5, 100),
      delinquency_rate         |-> Fin(5, 100),
      liquidation_rate         |-> Fin(10, 100),
      merchant_fee_dist        |-> [ lp_yield |-> Fin(7, 10),
                                     treasury |-> Fin(15, 100),
                                     insurance_fund |-> Fin(15, 100) ],
      late_fee_dist            |-> [ lp_yield |-> Fin(8, 10),
                                     treasury |-> Fin(1, 10),
                                     insurance_fund |-> Fin(1, 10) ],
      liquidation_penalty_dist |-> [ liquidator |-> Fin(5, 10),
                                     lp_yield |-> Fin(2, 10),
                                     treasury |-> Fin(15, 100),
                                     insurance_fund |-> Fin(15, 100) ] ]

(***************************************************************************)
(* Output formatting: the format specs ',.2f' and '.4f'                    *)
(***************************************************************************)
Pow10(dp) == IF dp = 2 THEN 100 ELSE IF dp = 4 THEN 10000 ELSE 1

\* x rounded to a multiple of 1/scale (ties to even), as a count of such units
RoundUnits(x, scale) ==
    LET ip == x.n \div x.d
        t  == (x.n % x.d) * scale
        fq == t \div x.d
        fr == t % x.d
        lo == ip * scale + fq
        up == (2 * fr > x.d) \/ (2 * fr = x.d /\ lo % 2 = 1)
    IN IF up THEN lo + 1 ELSE lo

NoVal == [txt |-> "", units |-> 0, dp |-> 0]

\* format(x, ',.2f') / format(x, '.4f'): a non-finite float prints as
\* inf, -inf or nan
Format(x, dp) ==
    IF x.k = "nan" THEN [txt |-> "nan", units |-> 0, dp |-> dp]
    ELSE IF x.k = "inf" THEN [txt |-> (IF x.n < 0 THEN "-inf" ELSE "inf"), units |-> 0, dp |-> dp]
    ELSE [txt |-> "num", units |-> RoundUnits(x, Pow10(dp)), dp |-> dp]

ReportLine(label, val) == [kind |-> "report", label |-> label, val |-> val]

WarningLine(key) == [kind |-> "warning", label |-> key, val |-> NoVal]

ErrorLine == [kind |-> "error", label |-> "Invalid argument format", val |-> NoVal]

(***************************************************************************)
(* calculate_apr: the derivation chain, one operator per local variable    *)
(***************************************************************************)
lent_amount(p) == Mul(p.total_liquidity, p.utilization_ratio)

\* a variant on a 360-day year
loan_cycles_per_year_360(p) == Div(Num(360), p.loan_term_days)

loan_cycles_per_year(p) == Div(Num(365), p.loan_term_days)

total_annual_loan_volume(p) == Mul(lent_amount(p), loan_cycles_per_year(p))

total_merchant_fee(p) == Mul(total_annual_loan_volume(p), p.merchant_fee_rate)

delinquent_volume(p) == Mul(total_annual_loan_volume(p), p.delinquency_rate)

\* a variant on a 360-day year
avg_late_period_in_years_360(p) == Div(p.loan_term_days, Num(360))

avg_late_period_in_years(p) == Div(p.loan_term_days, Num(365))

total_late_interest(p) ==
    Mul(Mul(delinquent_volume(p), p.late_interest_apr), avg_late_period_in_years(p))

liquidated_volume(p) == Mul(delinquent_volume(p), p.liquidation_rate)

total_liquidation_penalty(p) == Mul(liquidated_volume(p), p.liquidation_penalty_rate)

\* the three-term sum shared by lp_revenue, treasury_revenue and
\* insurance_fund_revenue, for the share named who
Share(p, who) ==
    Add(Add(Mul(total_merchant_fee(p), p.merchant_fee_dist[who]),
            Mul(total_late_interest(p), p.late_fee_dist[who])),
        Mul(total_liquidation_penalty(p), p.liquidation_penalty_dist[who]))

lp_revenue(p) == Share(p, "lp_yield")

treasury_revenue(p) == Share(p, "treasury")

insurance_fund_revenue(p) == Share(p, "insurance_fund")

\* a variant that pays the liquidator the LP share of the penalty
liquidator_revenue_LpShare(p) == Mul(total_liquidation_penalty(p), p.liquidation_penalty_dist.lp_yield)

liquidator_revenue(p) == Mul(total_liquidation_penalty(p), p.liquidation_penalty_dist.liquidator)

lp_apr(p) == Mul(Div(lp_revenue(p), p.total_liquidity), Num(100))

\* every local of calculate_apr, in assignment order
Locals(p) ==
    [ lent_amount               |-> lent_amount(p),
      loan_cycles_per_year      |-> loan_cycles_per_year(p),
      total_annual_loan_volume  |-> total_annual_loan_volume(p),
      total_merchant_fee        |-> total_merchant_fee(p),
      delinquent_volume         |-> delinquent_volume(p),
      avg_late_period_in_years  |-> avg_late_period_in_years(p),
      total_late_interest       |-> total_late_interest(p),
      liquidated_volume         |-> liquidated_volume(p),
      total_liquidation_penalty |-> total_liquidation_penalty(p),
      lp_revenue                |-> lp_revenue(p),
      treasury_revenue          |-> treasury_revenue(p),
      insurance_fund_revenue    |-> insurance_fund_revenue(p),
      liquidator_revenue        |-> liquidator_revenue(p),
      lp_apr                    |-> lp_apr(p) ]

\* the fifteen print calls that close calculate_apr
Report(p, f) ==
    << ReportLine("BNPL Protocol APR & Revenue Simulation", NoVal),
       ReportLine("-", NoVal),
       ReportLine("> Pool Size:", Format(p.total_liquidity, 2)),
       ReportLine("> Utilization:", Format(Mul(p.utilization_ratio, Num(100)), 2)),
       ReportLine("> Annual Loan Volume:", Format(f.total_annual_loan_volume, 2)),
       ReportLine("-", NoVal),
       ReportLine(">> LP APR:", Format(f.lp_apr, 4)),
       ReportLine("-", NoVal),
       ReportLine("Annual Revenue Breakdown", NoVal),
       ReportLine("-", NoVal),
       ReportLine("> LP Yield:", Format(f.lp_revenue, 2)),
       ReportLine("> Treasury:", Format(f.treasury_revenue, 2)),
       ReportLine("> Insurance Fund:", Format(f.insurance_fund_revenue, 2)),
       ReportLine("> Liquidators:", Format(f.liquidator_revenue, 2)),
       ReportLine("-", NoVal) >>

\* calculate_apr(params): the line that raised (0 when none did), the locals
\* bound when the function was left, and the lines it printed
calculate_apr(p) ==
    LET f == Locals(p) IN
    IF Raised(f.loan_cycles_per_year)
    THEN [raised |-> 46, frame |-> [v \in {"lent_amount"} |-> f[v]], printed |-> <<>>]
    ELSE IF Raised(f.lp_apr)
    THEN [raised |-> 95, frame |-> [v \in (DOMAIN f) \ {"lp_apr"} |-> f[v]], printed |-> <<>>]
    ELSE [raised |-> 0, frame |-> f, printed |-> Report(p, f)]

(***************************************************************************)
(* The __main__ block: str.split, float(), the override loop               *)
(***************************************************************************)
\* arg.split('=') on a sequence of atoms
RECURSIVE Split(_)
Split(arg) ==
    IF arg = <<>> THEN << "" >>
    ELSE IF Head(arg) = "=" THEN << "" >> \o Split(Tail(arg))
    ELSE IF Len(arg) = 1 THEN << Head(arg) >>
    ELSE << Head(arg) >> \o Split(Tail(Tail(arg)))

\* a variant that splits off the first two parts and drops the rest
Unpacks_AtLeastTwo(parts) == Len(parts) >= 2

\* key, value = ... : the unpacking succeeds on exactly two parts
Unpacks(parts) == Len(parts) = 2

\* float(value) for the literals of the model; anything else raises ValueError
float(value) ==
    CASE value = "0"   -> Num(0)
      [] value = "0.9" -> Fin(9, 10)
      [] value = "0.1" -> Fin(1, 10)
      [] value = "5"   -> Num(5)
      [] value = "60"  -> Num(60)
      [] value = "inf" -> Inf(1)
      [] value = "nan" -> NaN
      [] OTHER         -> ValueError

\* isinstance(x, (int, float)): a number, not one of the nested dicts
IsNumber(x) == "k" \in DOMAIN x

\* key in params and isinstance(params[key], (int, float))
IsOverridable(p, key) == key \in DOMAIN p /\ IsNumber(p[key])

\* a variant that overrides a fresh copy of the defaults
SetParam_FromDefaults(p, key, val) == [DEFAULT_PARAMS EXCEPT ![key] = val]

\* a variant that keeps a field once it has been overridden
SetParam_FirstWins(p, key, val) ==
    IF p[key] = DEFAULT_PARAMS[key] THEN [p EXCEPT ![key] = val] ELSE p

\* params[key] = float(value)
SetParam(p, key, val) == [p EXCEPT ![key] = val]

\* the arguments the model draws argv from
Args ==
    { << "utilization_ratio", "=", "0.9" >>,
      << "utilization_ratio", "=", "0" >>,
      << "utilization_ratio", "=", "inf" >>,
      << "utilization_ratio", "=", "abc" >>,
      << "utilization_ratio" >>,
      << "utilization_ratio", "=", "0.9", "=", "5" >>,
      << "loan_term_days", "=", "0" >>,
      << "loan_term_days", "=", "60" >>,
      << "total_liquidity", "=", "0" >>,
      << "total_liquidity", "=", "inf" >>,
      << "delinquency_rate", "=", "0.1" >>,
      << "merchant_fee_dist", "=", "5" >>,
      << "foo", "=", "5" >>,
      << "foo", "=", "abc" >> }

Argvs == UNION { [1..n -> Args] : n \in 0..MaxArgs }

Init ==
    /\ argv \in Argvs
    /\ i = 1
    /\ params = DEFAULT_PARAMS
    /\ pc = "args"
    /\ out = <<>>
    /\ exitStatus = -1
    /\ exc = "none"
    /\ locals = <<>>
    /\ calls = <<>>

\* one iteration of the for loop that overrides a numeric field
ParseOverride ==
    /\ pc = "args" /\ i <= Len(argv)
    /\ LET parts == Split(argv[i]) IN
         /\ Unpacks(parts)
         /\ IsOverridable(params, parts[1])
         /\ float(parts[2]) # ValueError
         /\ params' = SetParam(params, parts[1], float(parts[2]))
    /\ i' = i + 1
    /\ UNCHANGED <<argv, pc, out, exitStatus, exc, locals, calls>>

\* a variant in which an unknown key ends the run after the warning
ParseWarn_Abort ==
    /\ pc = "args" /\ i <= Len(argv)
    /\ LET parts == Split(argv[i]) IN
         /\ Unpacks(parts)
         /\ ~IsOverridable(params, parts[1])
         /\ out' = Append(out, WarningLine(parts[1]))
    /\ pc' = "exit"
    /\ exitStatus' = 1
    /\ UNCHANGED <<argv, i, params, exc, locals, calls>>

\* one iteration that takes the else branch: the key is ignored with a warning
ParseWarn ==
    /\ pc = "args" /\ i <= Len(argv)
    /\ LET parts == Split(argv[i]) IN
         /\ Unpacks(parts)
         /\ ~IsOverridable(params, parts[1])
         /\ out' = Append(out, WarningLine(parts[1]))
    /\ i' = i + 1
    /\ UNCHANGED <<argv, params, pc, exitStatus, exc, locals, calls>>

\* an iteration that raises ValueError (the unpacking or float()): the except
\* clause prints the error and calls sys.exit(1)
ParseError ==
    /\ pc = "args" /\ i <= Len(argv)
    /\ LET parts == Split(argv[i]) IN
         \/ ~Unpacks(parts)
         \/ Unpacks(parts) /\ IsOverridable(params, parts[1]) /\ float(parts[2]) = ValueError
    /\ out' = Append(out, ErrorLine)
    /\ pc' = "exit"
    /\ exitStatus' = 1
    /\ UNCHANGED <<argv, i, params, exc, locals, calls>>

\* the loop is exhausted and calculate_apr(params) returns after printing
CalculateReport ==
    /\ pc = "args" /\ i > Len(argv)
    /\ LET r == calculate_apr(params) IN
         /\ r.raised = 0
         /\ locals' = r.frame
         /\ out' = out \o r.printed
    /\ calls' = Append(calls, params)
    /\ pc' = "exit"
    /\ exitStatus' = 0
    /\ UNCHANGED <<argv, i, params, exc>>

\* the loop is exhausted and calculate_apr(params) raises ZeroDivisionError,
\* which nothing catches: traceback on stderr, exit status 1
CalculateRaise ==
    /\ pc = "args" /\ i > Len(argv)
    /\ LET r == calculate_apr(params) IN
         /\ r.raised # 0
         /\ locals' = r.frame
         /\ out' = out \o r.printed
    /\ calls' = Append(calls, params)
    /\ exc' = "ZeroDivisionError"
    /\ pc' = "exit"
    /\ exitStatus' = 1
    /\ UNCHANGED <<argv, i, params>>

Next == ParseOverride \/ ParseWarn \/ ParseError \/ CalculateReport \/ CalculateRaise

Spec == Init /\ [][Next]_vars

(***************************************************************************)
(* calculate_apr as a function of its argument: the parameter set is drawn *)
(* from ParamSets and handed to the call directly, with no command line.   *)
(***************************************************************************)
Dist3(a, b, c) == [lp_yield |-> a, treasury |-> b, insurance_fund |-> c]

Dist4(l, a, b, c) == [liquidator |-> l, lp_yield |-> a, treasury |-> b, insurance_fund |-> c]

ParamSets ==
    [ total_liquidity          : { Num(0), Num(1000), Num(1000000) },
      utilization_ratio        : { Num(0), Fin(8, 10), Inf(1) },
      loan_term_days           : { Num(0), Num(30), Num(73) },
      merchant_fee_rate        : { Fin(15, 1000), Inf(1) },
      late_interest_apr        : { Fin(30, 100) },
      liquidation_penalty_rate : { Fin(5, 100) },
      delinquency_rate         : { Fin(5, 100), Num(1) },
      liquidation_rate         : { Fin(10, 100) },
      merchant_fee_dist        : { DEFAULT_PARAMS.merchant_fee_dist,
                                   Dist3(Num(1), Num(0), Num(0)),
                                   Dist3(Fin(1, 2), Fin(1, 2), Fin(1, 2)) },
      late_fee_dist            : { DEFAULT_PARAMS.late_fee_dist,
                                   Dist3(Fin(1, 3), Fin(1, 3), Fin(1, 3)) },
      liquidation_penalty_dist : { DEFAULT_PARAMS.liquidation_penalty_dist,
                                   Dist4(Fin(1, 4), Fin(1, 4), Fin(1, 4), Fin(1, 4)) } ]

InitFn ==
    /\ argv = <<>>
    /\ i = 1
    /\ params \in ParamSets
    /\ pc = "args"
    /\ out = <<>>
    /\ exitStatus = -1
    /\ exc = "none"
    /\ locals = <<>>
    /\ calls = <<>>

NextFn == CalculateReport \/ CalculateRaise

SpecFn == InitFn /\ [][NextFn]_vars

(***************************************************************************)
(* Vocabulary of the properties, read off the argument text itself         *)
(***************************************************************************)
NumericFields ==
    { "total_liquidity", "utilization_ratio", "loan_term_days", "merchant_fee_rate",
      "late_interest_apr", "liquidation_penalty_rate", "delinquency_rate",
      "liquidation_rate" }

DistFields == { "merchant_fee_dist", "late_fee_dist", "liquidation_penalty_dist" }

NumericLiterals == { "0", "0.9", "0.1", "5", "60", "inf", "nan" }

EqCount(arg) == Cardinality({ j \in 1..Len(arg) : arg[j] = "=" })

\* arg reads key=value: exactly one "="
KeyValueForm(arg) == EqCount(arg) = 1

KeyOf(arg) == IF arg[1] = "=" THEN "" ELSE arg[1]

ValueOf(arg) == IF arg[Len(arg)] = "=" THEN "" ELSE arg[Len(arg)]

\* malformed as the specification words it: not key=value, or a value that is
\* not numeric
MalformedAsWorded(arg) ==
    ~KeyValueForm(arg) \/ ValueOf(arg) \notin NumericLiterals

\* malformed as the loop treats it: not key=value, or a numeric field given a
\* value that is not numeric
Malformed(arg) ==
    ~KeyValueForm(arg) \/ (KeyOf(arg) \in NumericFields /\ ValueOf(arg) \notin NumericLiterals)

\* key=value whose key is no numeric field
Ignored(arg) == KeyValueForm(arg) /\ KeyOf(arg) \notin NumericFields

\* key=value that overrides a numeric field
Override(arg) ==
    KeyValueForm(arg) /\ KeyOf(arg) \in NumericFields /\ ValueOf(arg) \in NumericLiterals

NoReportLine == \A j \in 1..Len(out) : out[j].kind # "report"

ErrorLines == { j \in 1..Len(out) : out[j].kind = "error" }

Printed(label) == { out[j].val : j \in { n \in 1..Len(out) : out[n].label = label } }

Money(units) == [txt |-> "num", units |-> units, dp |-> 2]

Percent4(units) == [txt |-> "num", units |-> units, dp |-> 4]

(***************************************************************************)
(* Properties                                                              *)
(***************************************************************************)

\* C1 (as worded): whenever some argument is not key=value or carries a value
\* that is not numeric, the run ends with the argument-format error and exit
\* status 1, calculate_apr is never called and no report line is printed.
C1_AsWorded ==
    (pc = "exit" /\ \E j \in 1..Len(argv) : MalformedAsWorded(argv[j]))
        => /\ exitStatus = 1
           /\ ErrorLines # {}
           /\ calls = <<>>
           /\ NoReportLine

\* C1 (amended): whenever some argument is not key=value, or names a numeric
\* field and carries a value that is not numeric, the run ends with exactly
\* one argument-format error as its last line and exit status 1,
\* calculate_apr is never called and no report line is printed, wherever the
\* argument stands and whatever precedes it.
C1_MalformedAborts ==
    (pc = "exit" /\ \E j \in 1..Len(argv) : Malformed(argv[j]))
        => /\ exitStatus = 1
           /\ ErrorLines = { Len(out) }
           /\ exc = "none"
           /\ calls = <<>>
           /\ locals = <<>>
           /\ NoReportLine

\* C1 witness: the run has ended on a malformed third argument that two
\* valid overrides precede.
C1_Witness ==
    /\ pc = "exit" /\ Len(argv) = 3
    /\ Override(argv[1]) /\ Override(argv[2]) /\ Malformed(argv[3])
    /\ exitStatus = 1 /\ params # DEFAULT_PARAMS

\* C2: an iteration on key=value whose key is unknown or names a distribution
\* mapping appends a warning naming the key, leaves every parameter as it
\* was and moves on to the next argument without ending the run; and a run
\* in which no argument is malformed always reaches calculate_apr.
C2_UnknownKeyWarns ==
    /\ [][ (pc = "args" /\ i <= Len(argv) /\ Ignored(argv[i]))
             => /\ params' = params
                /\ out' = Append(out, WarningLine(KeyOf(argv[i])))
                /\ pc' = "args" /\ i' = i + 1
                /\ exitStatus' = exitStatus /\ exc' = exc ]_vars
    /\ []( (pc = "exit" /\ \A j \in 1..Len(argv) : ~Malformed(argv[j]))
             => Len(calls) = 1 )

\* C2 witness: a distribution-mapping key was warned about, a later override
\* was still applied and the calculation ran.
C2_Witness ==
    /\ pc = "exit" /\ Len(calls) = 1 /\ Len(argv) >= 2
    /\ KeyOf(argv[1]) \in DistFields /\ Ignored(argv[1]) /\ Override(argv[2])
    /\ out[1] = WarningLine(KeyOf(argv[1]))
    /\ params # DEFAULT_PARAMS
    /\ \A f \in DistFields : params[f] = DEFAULT_PARAMS[f]

\* C3: when calculate_apr is called with loan_term_days = 0 or
\* total_liquidity = 0, the run ends with an uncaught ZeroDivisionError and
\* exit status 1, prints no argument-format error and no report line.
C3_ZeroDivisorFails ==
    (pc = "exit" /\ Len(calls) = 1
       /\ (IsZero(calls[1].loan_term_days) \/ IsZero(calls[1].total_liquidity)))
        => /\ exc = "ZeroDivisionError"
           /\ exitStatus = 1
           /\ ErrorLines = {}
           /\ NoReportLine

\* C3 witness: total_liquidity was overridden to 0 with a non-zero loan term,
\* so the division of line 95 is the one that raised.
C3_Witness ==
    /\ pc = "exit" /\ Len(calls) = 1
    /\ IsZero(calls[1].total_liquidity) /\ ~IsZero(calls[1].loan_term_days)
    /\ exc = "ZeroDivisionError"
    /\ "lp_revenue" \in DOMAIN locals /\ "lp_apr" \notin DOMAIN locals

FiniteScalars(p) == \A f \in NumericFields : IsFinite(p[f])

Sum3(d) == Add(Add(d.lp_yield, d.treasury), d.insurance_fund)

SumsToOne(p) ==
    /\ Sum3(p.merchant_fee_dist) = Num(1)
    /\ Sum3(p.late_fee_dist) = Num(1)
    /\ Add(Sum3(p.liquidation_penalty_dist), p.liquidation_penalty_dist.liquidator) = Num(1)

\* C4: for a finite parameter set whose three distribution mappings each sum
\* to 1, once the four revenue figures are computed their sum equals
\* total_merchant_fee + total_late_interest + total_liquidation_penalty.
C4_RevenueConservation ==
    (pc = "exit" /\ Len(calls) = 1 /\ "liquidator_revenue" \in DOMAIN locals
       /\ FiniteScalars(calls[1]) /\ SumsToOne(calls[1]))
        => Add(Add(Add(locals.lp_revenue, locals.treasury_revenue),
                   locals.insurance_fund_revenue), locals.liquidator_revenue)
           = Add(Add(locals.total_merchant_fee, locals.total_late_interest),
                 locals.total_liquidation_penalty)

\* C4 witness: a report was produced from non-default mappings that sum to 1
\* and all three fee totals are non-zero.
C4_Witness ==
    /\ pc = "exit" /\ exc = "none" /\ Len(calls) = 1
    /\ FiniteScalars(params) /\ SumsToOne(params)
    /\ params.late_fee_dist # DEFAULT_PARAMS.late_fee_dist
    /\ params.liquidation_penalty_dist # DEFAULT_PARAMS.liquidation_penalty_dist
    /\ ~IsZero(locals.total_merchant_fee)
    /\ ~IsZero(locals.total_late_interest)
    /\ ~IsZero(locals.total_liquidation_penalty)

\* C5 (as worded): with no overrides the chain gives annual loan volume
\* 9,733,333.33, merchant fee 146,000.00, late interest 12,000.00,
\* liquidation penalty 2,433.33, lp_revenue 111,286.67 and lp_apr 11.1287%.
C5_AsWorded ==
    (pc = "exit" /\ argv = <<>>)
        => /\ RoundUnits(locals.total_annual_loan_volume, 100) = 973333333
           /\ RoundUnits(locals.total_merchant_fee, 100) = 14600000
           /\ RoundUnits(locals.total_late_interest, 100) = 1200000
           /\ RoundUnits(locals.total_liquidation_penalty, 100) = 243333
           /\ RoundUnits(locals.lp_revenue, 100) = 11128667
           /\ RoundUnits(locals.lp_apr, 10000) = 111287

\* C5 (amended): with no overrides the chain gives annual loan volume
\* 9,733,333.33, merchant fee 146,000.00, late interest 12,000.00,
\* liquidation penalty 2,433.33, lp_revenue 112,286.67 and lp_apr 11.2287%,
\* and the report prints those three of them it shows.
C5_DefaultScenario ==
    (pc = "exit" /\ argv = <<>>)
        => /\ exc = "none" /\ exitStatus = 0
           /\ RoundUnits(locals.total_annual_loan_volume, 100) = 973333333
           /\ RoundUnits(locals.total_merchant_fee, 100) = 14600000
           /\ RoundUnits(locals.total_late_interest, 100) = 1200000
           /\ RoundUnits(locals.total_liquidation_penalty, 100) = 243333
           /\ RoundUnits(locals.lp_revenue, 100) = 11228667
           /\ RoundUnits(locals.lp_apr, 10000) = 112287
           /\ Printed("> Annual Loan Volume:") = { Money(973333333) }
           /\ Printed("> LP Yield:") = { Money(11228667) }
           /\ Printed(">> LP APR:") = { Percent4(112287) }

\* C5 witness: the run without arguments has printed its report.
C5_Witness ==
    /\ pc = "exit" /\ argv = <<>> /\ Len(calls) = 1 /\ calls[1] = DEFAULT_PARAMS
    /\ Len(out) = 15 /\ "lp_apr" \in DOMAIN locals

\* C6: an iteration on a well-formed override of a numeric field sets that
\* field to the parsed value and changes no other field, no mapping and no
\* output; a run on that single override calls calculate_apr on the defaults
\* with only that value substituted, and utilization_ratio=0.9 prints
\* 90.00% utilization and an annual loan volume of 10,950,000.00.
C6_OverrideSetsOneField ==
    /\ [][ (pc = "args" /\ i <= Len(argv) /\ Override(argv[i]))
             => /\ params'[KeyOf(argv[i])] = float(ValueOf(argv[i]))
                /\ \A f \in (DOMAIN params) \ { KeyOf(argv[i]) } : params'[f] = params[f]
                /\ DOMAIN params' = DOMAIN params
                /\ out' = out /\ pc' = "args" /\ i' = i + 1 ]_vars
    /\ []( (pc = "exit" /\ Len(argv) = 1 /\ Override(argv[1]))
             => /\ Len(calls) = 1
                /\ calls[1] = [DEFAULT_PARAMS EXCEPT ![KeyOf(argv[1])] = float(ValueOf(argv[1]))] )
    /\ []( (pc = "exit" /\ argv = << << "utilization_ratio", "=", "0.9" >> >>)
             => /\ Printed("> Utilization:") = { Money(9000) }
                /\ Printed("> Annual Loan Volume:") = { Money(1095000000) } )

\* C6 witness: an override of loan_term_days was applied after an override of
\* another field, which kept its overridden value, and the report was printed.
C6_Witness ==
    /\ pc = "exit" /\ exc = "none" /\ Len(argv) = 2 /\ Len(calls) = 1
    /\ Override(argv[1]) /\ Override(argv[2])
    /\ KeyOf(argv[1]) = "utilization_ratio" /\ KeyOf(argv[2]) = "loan_term_days"
    /\ params.utilization_ratio = Fin(9, 10)
    /\ params.loan_term_days = Num(60)
    /\ params.total_liquidity = DEFAULT_PARAMS.total_liquidity

\* C7 (as worded): whenever calculate_apr is called with utilization_ratio =
\* 0 and non-zero loan_term_days and total_liquidity, lp_apr and the four
\* revenue figures are all exactly 0.
C7_AsWorded ==
    (pc = "exit" /\ Len(calls) = 1
       /\ IsZero(calls[1].utilization_ratio)
       /\ ~IsZero(calls[1].loan_term_days) /\ ~IsZero(calls[1].total_liquidity))
        => /\ "lp_apr" \in DOMAIN locals
           /\ locals.lp_apr = Num(0)
           /\ locals.lp_revenue = Num(0)
           /\ locals.treasury_revenue = Num(0)
           /\ locals.insurance_fund_revenue = Num(0)
           /\ locals.liquidator_revenue = Num(0)

\* C8 (as worded): a run either prints no report line or prints a report
\* whose every value is a finite number.
C8_AsWorded ==
    pc = "exit"
        => \/ NoReportLine
           \/ \A j \in 1..Len(out) : out[j].kind = "report" => out[j].val.txt \in { "", "num" }

LastIndex(f) ==
    LET S == { j \in 1..Len(argv) : Override(argv[j]) /\ KeyOf(argv[j]) = f }
    IN IF S = {} THEN 0 ELSE CHOOSE j \in S : \A m \in S : m <= j

\* C9: calculate_apr is called at most once, only when every argument has
\* been processed, and each numeric field it receives holds the value of the
\* last override of that field in argv (the default when there is none).
C9_LastOverrideWins ==
    calls # <<>>
        => /\ Len(calls) = 1 /\ pc = "exit" /\ i = Len(argv) + 1
           /\ \A f \in NumericFields :
                calls[1][f] = IF LastIndex(f) = 0 THEN DEFAULT_PARAMS[f]
                              ELSE float(ValueOf(argv[LastIndex(f)]))

\* C9 witness: utilization_ratio was overridden twice with different values,
\* another override in between, and the calculation ran on the last value.
C9_Witness ==
    /\ pc = "exit" /\ Len(calls) = 1 /\ Len(argv) = 3
    /\ argv[1] = << "utilization_ratio", "=", "0" >>
    /\ KeyOf(argv[2]) # "utilization_ratio" /\ Override(argv[2])
    /\ argv[3] = << "utilization_ratio", "=", "0.9" >>
    /\ calls[1].utilization_ratio = Fin(9, 10)

\* C10: for finite inputs and a non-zero loan_term_days, total_late_interest
\* equals total_liquidity * utilization_ratio * delinquency_rate *
\* late_interest_apr, whatever loan_term_days is.
C10_LateInterestIgnoresTerm ==
    (pc = "exit" /\ Len(calls) = 1 /\ FiniteScalars(calls[1])
       /\ ~IsZero(calls[1].loan_term_days))
        => /\ "total_late_interest" \in DOMAIN locals
           /\ locals.total_late_interest
                = Mul(Mul(Mul(calls[1].total_liquidity, calls[1].utilization_ratio),
                          calls[1].delinquency_rate), calls[1].late_interest_apr)

\* C10 witness: a 73-day term, which is not the default, with a non-zero
\* late interest.
C10_Witness ==
    /\ pc = "exit" /\ Len(calls) = 1 /\ FiniteScalars(params)
    /\ params.loan_term_days = Num(73)
    /\ "total_late_interest" \in DOMAIN locals
    /\ ~IsZero(locals.total_late_interest)

====
